---- MODULE Spec2Model ----
(***************************************************************************)
(* Model of the sklang lexer (src/src/lexer/mod.rs).                       *)
(*                                                                         *)
(* A character is a one-character string; Option<char> is a sequence of    *)
(* length 0 (None) or 1 (Some(c)); a String is a sequence of characters.   *)
(* The Lexer struct is the record `lexer`; the position of its Cursor is   *)
(* the field pos (number of characters the cursor has handed out).         *)
(* One call of next_token, with the tail calls it makes to itself after a  *)
(* newline or a whitespace character, is the operator next_token; the body *)
(* of the loop of tokenize is one step of the state machine.               *)
(***************************************************************************)
EXTENDS Integers, Sequences, FiniteSets, TLC

VARIABLES source, lexer, results, pc, calls

vars == <<source, lexer, results, pc, calls>>

\* ------------------------------------------------------------------ bounds
MaxLen == 4
MaxLenOps == 3
MaxLenSpace == 4
MaxLenComment == 5
MaxLenIdent == 4

\* --------------------------------------------------------- character classes
None == <<>>

Some(c) == <<c>>

Digits == {"0", "1", "2", "3", "4", "5", "6", "7", "8", "9"}

\* characters outside '0'..='9' for which char::is_numeric holds
\* (the superscript two and the vulgar fraction one half, by name)
OtherNumeric == {"SUPERSCRIPT_TWO", "ONE_HALF"}

Letters ==
    {"a", "b", "c", "d", "e", "f", "g", "h", "i", "j", "k", "l", "m",
     "n", "o", "p", "q", "r", "s", "t", "u", "v", "w", "x", "y", "z",
     "A", "B", "C", "D", "E", "F", "G", "H", "I", "J", "K", "L", "M",
     "N", "O", "P", "Q", "R", "S", "T", "U", "V", "W", "X", "Y", "Z"}

is_numeric(ch) == ch \in Digits \cup OtherNumeric

is_alphanumeric(ch) == ch \in Letters \/ is_numeric(ch)

\* char::is_whitespace without the space character
is_whitespace_no_space(ch) == ch \in {"\t", "\n", "\r"}

\* char::is_whitespace, on the characters of the model
is_whitespace(ch) == ch \in {" ", "\t", "\n", "\r"}

\* ---------------------------------------------------------------- keywords
KEYWORDS ==
    [lexeme \in {<<"b","r","e","a","k">>, <<"c","o","n","t","i","n","u","e">>,
                 <<"d","e","f","a","u","l","t">>, <<"e","l","s","e">>,
                 <<"e","n","u","m">>, <<"f","a","l","s","e">>, <<"f","n">>,
                 <<"f","o","r">>, <<"i","f">>, <<"m","a","t","c","h">>,
                 <<"r","e","t","u","r","n">>, <<"s","t","r","u","c","t">>,
                 <<"s","w","i","t","c","h">>, <<"t","r","u","e">>,
                 <<"v","a","r">>, <<"w","h","i","l","e">>,
                 <<"i","n","t">>, <<"u","i","n","t">>, <<"f","l","o","a","t">>,
                 <<"b","o","o","l">>, <<"c","h","a","r">>} |->
        CASE lexeme = <<"b","r","e","a","k">> -> "Break"
          [] lexeme = <<"c","o","n","t","i","n","u","e">> -> "Continue"
          [] lexeme = <<"d","e","f","a","u","l","t">> -> "Default"
          [] lexeme = <<"e","l","s","e">> -> "Else"
          [] lexeme = <<"e","n","u","m">> -> "Enum"
          [] lexeme = <<"f","a","l","s","e">> -> "False"
          [] lexeme = <<"f","n">> -> "Fn"
          [] lexeme = <<"f","o","r">> -> "For"
          [] lexeme = <<"i","f">> -> "If"
          [] lexeme = <<"m","a","t","c","h">> -> "Match"
          [] lexeme = <<"r","e","t","u","r","n">> -> "Return"
          [] lexeme = <<"s","t","r","u","c","t">> -> "Struct"
          [] lexeme = <<"s","w","i","t","c","h">> -> "Switch"
          [] lexeme = <<"t","r","u","e">> -> "True"
          [] lexeme = <<"v","a","r">> -> "Var"
          [] lexeme = <<"w","h","i","l","e">> -> "While"
          [] lexeme = <<"i","n","t">> -> "Primitive(Int)"
          [] lexeme = <<"u","i","n","t">> -> "Primitive(UInt)"
          [] lexeme = <<"f","l","o","a","t">> -> "Primitive(Float)"
          [] lexeme = <<"b","o","o","l">> -> "Primitive(Bool)"
          [] lexeme = <<"c","h","a","r">> -> "Primitive(Char)"]

\* ------------------------------------------------------------------ Cursor
\* Cursor::next: the next character and the position after it
cursor_next(pos) ==
    IF pos < Len(source)
    THEN [ch |-> Some(source[pos + 1]), pos |-> pos + 1]
    ELSE [ch |-> None, pos |-> pos]

\* Peekable::peek_nth: n = 0 is the next character to be consumed
peek_nth(pos, n) ==
    IF pos + n < Len(source) THEN Some(source[pos + n + 1]) ELSE None

\* Cursor::substring: the characters at offsets start .. end-1, or None
substring(start, end) ==
    IF start <= end /\ end <= Len(source)
    THEN Some(SubSeq(source, start + 1, end))
    ELSE None

\* ------------------------------------------------------------ result values
\* Result<Token>: res is "Ok" or "Err"; a call that does not return because
\* an expect failed has res "Panic".
\*   Ok:    t the TokenType variant, text its String / char payload,
\*          num the payload of Integer
\*   Err:   t the LexerError variant, expected its expected field,
\*          text its got / character field
Ok(t, text, num) ==
    [res |-> "Ok", t |-> t, text |-> text, num |-> num, expected |-> "",
     line |-> 0, col |-> 0]

Err(t, lx, expected, got) ==
    [res |-> "Err", t |-> t, text |-> got, num |-> 0, expected |-> expected,
     line |-> lx.line, col |-> lx.col]

Panic(msg) ==
    [res |-> "Panic", t |-> msg, text |-> <<>>, num |-> 0, expected |-> "",
     line |-> 0, col |-> 0]

Plain(t) == Ok(t, <<>>, 0)

\* ------------------------------------------------------------ str::parse
DigitVal(ch) ==
    CASE ch = "0" -> 0 [] ch = "1" -> 1 [] ch = "2" -> 2 [] ch = "3" -> 3
      [] ch = "4" -> 4 [] ch = "5" -> 5 [] ch = "6" -> 6 [] ch = "7" -> 7
      [] ch = "8" -> 8 [] ch = "9" -> 9 [] OTHER -> 0

AllDigits(s) == \A i \in 1..Len(s) : s[i] \in Digits

RECURSIVE DecimalValue(_)
DecimalValue(s) ==
    IF s = <<>> THEN 0
    ELSE 10 * DecimalValue(SubSeq(s, 1, Len(s) - 1)) + DigitVal(s[Len(s)])

RECURSIVE StripZeros(_)
StripZeros(s) ==
    IF s # <<>> /\ s[1] = "0" THEN StripZeros(Tail(s)) ELSE s

\* u64::MAX, digit by digit: 18446744073709551615
U64MaxDigits ==
    <<"1","8","4","4","6","7","4","4","0","7","3","7","0","9","5","5","1",
      "6","1","5">>

\* s <= t for two digit strings of the same length
RECURSIVE DigitsLeq(_, _)
DigitsLeq(s, t) ==
    IF s = <<>> THEN TRUE
    ELSE IF DigitVal(s[1]) < DigitVal(t[1]) THEN TRUE
    ELSE IF DigitVal(s[1]) > DigitVal(t[1]) THEN FALSE
    ELSE DigitsLeq(Tail(s), Tail(t))

FitsU64(s) ==
    LET sig == StripZeros(s)
    IN  \/ Len(sig) < Len(U64MaxDigits)
        \/ Len(sig) = Len(U64MaxDigits) /\ DigitsLeq(sig, U64MaxDigits)

\* str::parse::<u64>: an optional '+', then one or more ASCII digits whose
\* value fits 64 bits; None is the Err case
parse_u64(s) ==
    LET body == IF s # <<>> /\ s[1] = "+" THEN Tail(s) ELSE s
    IN  IF body # <<>> /\ AllDigits(body) /\ FitsU64(body)
        THEN Some(DecimalValue(body))
        ELSE None

\* the Number production of f64's FromStr without its sign:
\* Digit+ | Digit+ '.' Digit* | Digit* '.' Digit+
IsMantissa(s) ==
    \/ s # <<>> /\ AllDigits(s)
    \/ \E d \in 1..Len(s) :
          /\ s[d] = "."
          /\ AllDigits(SubSeq(s, 1, d - 1))
          /\ AllDigits(SubSeq(s, d + 1, Len(s)))
          /\ Len(s) > 1

IsExponent(s) ==
    LET body == IF s # <<>> /\ s[1] \in {"+", "-"} THEN Tail(s) ELSE s
    IN  body # <<>> /\ AllDigits(body)

Lower(ch) ==
    CASE ch = "I" -> "i" [] ch = "N" -> "n" [] ch = "F" -> "f"
      [] ch = "T" -> "t" [] ch = "Y" -> "y" [] ch = "A" -> "a"
      [] OTHER -> ch

\* str::parse::<f64>: TRUE when the parse is Ok
parse_f64_ok(s) ==
    LET body == IF s # <<>> /\ s[1] \in {"+", "-"} THEN Tail(s) ELSE s
        low == [i \in 1..Len(body) |-> Lower(body[i])]
    IN  \/ low \in {<<"i","n","f">>, <<"n","a","n">>,
                    <<"i","n","f","i","n","i","t","y">>}
        \/ IsMantissa(body)
        \/ \E e \in 1..Len(body) :
              /\ body[e] \in {"e", "E"}
              /\ IsMantissa(SubSeq(body, 1, e - 1))
              /\ IsExponent(SubSeq(body, e + 1, Len(body)))

\* ------------------------------------------------------------------- Lexer
\* Lexer::new
new ==
    [pos |-> 0, start |-> 0, current |-> 0, line |-> 1, col |-> 0]

\* Lexer::advance with a newline that resets current and leaves start
advance_keep_start(lx) ==
    LET next == cursor_next(lx.pos)
    IN  IF next.ch = None THEN [ch |-> None, lx |-> lx]
        ELSE IF next.ch[1] = "\n"
        THEN [ch |-> next.ch,
              lx |-> [lx EXCEPT !.pos = next.pos, !.col = 1, !.line = @ + 1,
                                !.current = 0]]
        ELSE [ch |-> next.ch,
              lx |-> [lx EXCEPT !.pos = next.pos, !.col = @ + 1,
                                !.current = @ + 1]]

\* Lexer::advance: the character read (None at the end of the input) and the
\* lexer after the read
advance(lx) ==
    LET next == cursor_next(lx.pos)
    IN  IF next.ch = None THEN [ch |-> None, lx |-> lx]
        ELSE IF next.ch[1] = "\n"
        THEN [ch |-> next.ch,
              lx |-> [lx EXCEPT !.pos = next.pos, !.col = 1, !.line = @ + 1,
                                !.current = 0, !.start = 0]]
        ELSE [ch |-> next.ch,
              lx |-> [lx EXCEPT !.pos = next.pos, !.col = @ + 1,
                                !.current = @ + 1]]

\* Lexer::get_lexeme: Some(lexeme), or None when the expect fails
get_lexeme(lx) == substring(lx.start, lx.current)

\* the while loop of handle_comment
RECURSIVE comment_loop(_)
comment_loop(lx) ==
    LET ch == peek_nth(lx.pos, 1)
    IN  IF ch = None \/ ch[1] = "\n" THEN lx
        ELSE comment_loop(advance(lx).lx)

\* Lexer::handle_comment
handle_comment(lx) ==
    comment_loop([lx EXCEPT !.pos = cursor_next(lx.pos).pos])

\* Lexer::consume with the end of the input reported as a wrong character
consume_no_eof(lx, target) ==
    LET next == peek_nth(lx.pos, 1)
    IN  IF next = None \/ next[1] # target
        THEN [lx |-> lx, r |-> Err("UnexpectedCharacter", lx, target, next)]
        ELSE [lx |-> advance(lx).lx, r |-> Ok("char", advance(lx).ch, 0)]

\* Lexer::consume
consume(lx, target) ==
    LET next == peek_nth(lx.pos, 1)
    IN  IF next = None
        THEN [lx |-> lx, r |-> Err("UnexpectedEof", lx, target, <<>>)]
        ELSE IF next[1] # target
        THEN [lx |-> lx, r |-> Err("UnexpectedCharacter", lx, target, next)]
        ELSE [lx |-> advance(lx).lx, r |-> Ok("char", advance(lx).ch, 0)]

\* Lexer::handle_char
handle_char(lx) ==
    LET a == advance(lx)
    IN  IF a.ch = None
        THEN [lx |-> lx, r |-> Err("UnexpectedEof", lx, "a character", <<>>)]
        ELSE LET c == consume(a.lx, "'")
             IN  IF c.r.res = "Err" THEN c
                 ELSE [lx |-> c.lx, r |-> Ok("Character", a.ch, 0)]

\* the while loop of handle_string: the position of the cursor when the loop
\* ends, and whether it ended at the return of the newline error
RECURSIVE string_loop(_)
string_loop(pos) ==
    LET ch == peek_nth(pos, 1)
    IN  IF ch = None THEN [pos |-> pos, newline |-> FALSE]
        ELSE IF ch[1] = "\n" THEN [pos |-> pos, newline |-> TRUE]
        ELSE IF ch[1] = "\"" THEN [pos |-> pos, newline |-> FALSE]
        ELSE string_loop(cursor_next(pos).pos)

\* Lexer::handle_string
handle_string(lx) ==
    LET loop == string_loop(lx.pos)
        lx2 == [lx EXCEPT !.pos = loop.pos]
        string == substring(lx2.start, lx2.current)
    IN  IF loop.newline
        THEN [lx |-> lx2,
              r |-> Err("UnexpectedCharacter", lx2, "a valid string", Some("\n"))]
        ELSE IF string = None
        THEN [lx |-> lx2, r |-> Panic("start and current should be valid")]
        ELSE [lx |-> lx2, r |-> Ok("String", string[1], 0)]

\* the while loop of handle_number
RECURSIVE number_loop(_, _)
number_loop(lx, is_float) ==
    LET ch == peek_nth(lx.pos, 0)
    IN  IF ch = None THEN [lx |-> lx, is_float |-> is_float]
        ELSE IF ch[1] \in Digits THEN number_loop(advance(lx).lx, is_float)
        ELSE IF ch[1] = "." THEN number_loop(advance(lx).lx, TRUE)
        ELSE [lx |-> lx, is_float |-> is_float]

\* Lexer::handle_number
handle_number(lx) ==
    LET loop == number_loop(lx, FALSE)
        lexeme == get_lexeme(loop.lx)
    IN  IF lexeme = None
        THEN [lx |-> loop.lx,
              r |-> Panic("start and current should always be valid")]
        ELSE IF loop.is_float
        THEN IF parse_f64_ok(lexeme[1])
             THEN [lx |-> loop.lx, r |-> Ok("Decimal", lexeme[1], 0)]
             ELSE [lx |-> loop.lx, r |-> Panic("parsing should never fail")]
        ELSE IF parse_u64(lexeme[1]) # None
             THEN [lx |-> loop.lx,
                   r |-> Ok("Integer", <<>>, parse_u64(lexeme[1])[1])]
             ELSE [lx |-> loop.lx, r |-> Panic("parsing should never fail")]

\* the while loop of handle_identifier
RECURSIVE identifier_loop(_)
identifier_loop(lx) ==
    LET ch == peek_nth(lx.pos, 0)
    IN  IF ch # None /\ (is_alphanumeric(ch[1]) \/ ch[1] = "_")
        THEN identifier_loop(advance(lx).lx)
        ELSE lx

\* Lexer::handle_identifier
handle_identifier(lx) ==
    LET lx2 == identifier_loop(lx)
        lexeme == get_lexeme(lx2)
    IN  IF lexeme = None
        THEN [lx |-> lx2,
              r |-> Panic("start and current should always be valid")]
        ELSE IF lexeme[1] \in DOMAIN KEYWORDS
        THEN [lx |-> lx2, r |-> Plain(KEYWORDS[lexeme[1]])]
        ELSE [lx |-> lx2, r |-> Ok("Identifier", lexeme[1], 0)]

OperatorChars == {"+", "-", "*", "/", "%", "!", "=", ">", "<", "&", "|"}

\* the arm of next_token for '-' with the tokens of the minus family
minus_arm_minus(lx) ==
    LET next == peek_nth(lx.pos, 0)
    IN  IF next = Some("=")
        THEN [lx |-> advance(lx).lx, r |-> Plain("MinusEqual")]
        ELSE IF next = Some(">")
        THEN [lx |-> advance(lx).lx, r |-> Plain("Arrow")]
        ELSE [lx |-> lx, r |-> Plain("Minus")]

\* the arm of next_token for '-'
minus_arm(lx) ==
    LET next == peek_nth(lx.pos, 0)
    IN  IF next = Some("=")
        THEN [lx |-> advance(lx).lx, r |-> Plain("LessEqual")]
        ELSE IF next = Some(">")
        THEN [lx |-> advance(lx).lx, r |-> Plain("Arrow")]
        ELSE [lx |-> lx, r |-> Plain("Less")]

\* the arms of next_token for the operators that have a longer form: ch has
\* been read, the next character is peeked
operator(lx, ch) ==
    LET next == peek_nth(lx.pos, 0)
        two(t) == [lx |-> advance(lx).lx, r |-> Plain(t)]
        one(t) == [lx |-> lx, r |-> Plain(t)]
    IN  CASE ch = "+" -> IF next = Some("=") THEN two("AddEqual") ELSE one("Add")
          [] ch = "-" -> minus_arm(lx)
          [] ch = "*" -> IF next = Some("=") THEN two("StarEqual") ELSE one("Star")
          [] ch = "/" -> IF next = Some("=") THEN two("SlashEqual")
                         ELSE IF next = Some("/")
                         THEN [lx |-> handle_comment(lx), r |-> Plain("Comment")]
                         ELSE one("Slash")
          [] ch = "%" -> IF next = Some("=") THEN two("ModuloEqual")
                         ELSE one("Modulo")
          [] ch = "!" -> IF next = Some("=") THEN two("BangEqual") ELSE one("Bang")
          [] ch = "=" -> IF next = Some("=") THEN two("EqualEqual")
                         ELSE one("Equal")
          [] ch = ">" -> IF next = Some("=") THEN two("GreaterEqual")
                         ELSE one("Greater")
          [] ch = "<" -> IF next = Some("=") THEN two("LessEqual") ELSE one("Less")
          [] ch = "&" -> IF next = Some("&") THEN two("LogicalAnd")
                         ELSE one("Ampersand")
          [] ch = "|" -> IF next = Some("|") THEN two("LogicalOr") ELSE one("Bar")

PunctuationChars == {":", ",", ".", "{", "[", "(", "}", "]", ")", ";"}

\* the arms of next_token for the single-character punctuation
punctuation(lx, ch) ==
    [lx |-> lx,
     r |-> Plain(CASE ch = ":" -> "Colon" [] ch = "," -> "Comma"
                   [] ch = "." -> "Dot" [] ch = "{" -> "LeftBrace"
                   [] ch = "[" -> "LeftBracket" [] ch = "(" -> "LeftParen"
                   [] ch = "}" -> "RightBrace" [] ch = "]" -> "RightBracket"
                   [] ch = ")" -> "RightParen" [] ch = ";" -> "Semicolon")]

\* the last arm of next_token, with the character put back instead of skipped
unknown_character_unread(lx, ch) ==
    [lx |-> [lx EXCEPT !.pos = @ - 1],
     r |-> Err("UnknownCharacter", lx, "", Some(ch))]

\* the last arm of next_token
unknown_character(lx, ch) ==
    [lx |-> lx, r |-> Err("UnknownCharacter", lx, "", Some(ch))]

\* the end of next_token: an Err leaves by the ? operator, an Ok resets the
\* lexeme start and takes the line and column of the lexer
finish(h) ==
    IF h.r.res = "Ok"
    THEN [lx |-> [h.lx EXCEPT !.start = h.lx.current],
          r |-> [h.r EXCEPT !.line = h.lx.line, !.col = h.lx.col]]
    ELSE h

\* Lexer::next_token: lx the lexer when the call returns, r its result, and
\* at the offset in the source just after the character the match is on
RECURSIVE next_token(_)
next_token(lx) ==
    LET a == advance(lx)
        l1 == a.lx
        ch == a.ch[1]
        ret(h) == [lx |-> h.lx, r |-> h.r, at |-> l1.pos]
    IN  IF a.ch = None
        THEN [lx |-> lx,
              r |-> [Plain("Eof") EXCEPT !.line = lx.line, !.col = lx.col],
              at |-> lx.pos]
        ELSE IF ch \in OperatorChars THEN ret(finish(operator(l1, ch)))
        ELSE IF ch \in PunctuationChars THEN ret(finish(punctuation(l1, ch)))
        ELSE IF ch = "'" THEN ret(finish(handle_char(l1)))
        ELSE IF ch = "\"" THEN ret(finish(handle_string(l1)))
        ELSE IF is_numeric(ch) THEN ret(finish(handle_number(l1)))
        ELSE IF is_alphanumeric(ch) \/ ch = "_"
        THEN ret(finish(handle_identifier(l1)))
        ELSE IF ch = "\n"
        THEN next_token([l1 EXCEPT !.line = @ + 1, !.col = 1])
        ELSE IF is_whitespace(ch)
        THEN next_token([l1 EXCEPT !.start = l1.current])
        ELSE ret(unknown_character(l1, ch))

IsEof(token) == token.res = "Ok" /\ token.t = "Eof"

\* the body of the loop of tokenize with the push before the test
loop_body_push_first(res, token) ==
    [results |-> Append(res, token), break |-> IsEof(token)]

\* the body of the loop of tokenize after the call of next_token
loop_body(res, token) ==
    IF IsEof(token)
    THEN [results |-> res, break |-> TRUE]
    ELSE [results |-> Append(res, token), break |-> FALSE]

\* --------------------------------------------------------------- the machine
\* pc: "loop" in the loop of tokenize, "done" after it returned, "panic"
\* after an expect failed.  calls records every call of next_token made by
\* tokenize: the cursor position at its entry (from) and exit (to), the
\* offset after the character matched on (at), start and current at its
\* entry, and the result.
Strings(A, n) == UNION {[1..k -> A] : k \in 0..n}

Alphabet == {"/", "'", "\"", "1", ".", "f", " ", "\n", "@"}

OpsAlphabet == OperatorChars \cup {"a", "1", "\n", "@"}

SpaceAlphabet == {" ", "\t", "\n", "\r", "1", "f", "@"}

IdentAlphabet == {"f", "n", "x", " ", "\n", "1", "@"}

CommentAlphabet == {"/", "\n", "f", "n", "1", "@"}

InitOn(S) ==
    /\ source \in S
    /\ lexer = new
    /\ results = <<>>
    /\ pc = "loop"
    /\ calls = <<>>

Init == InitOn(Strings(Alphabet, MaxLen))

InitOps == InitOn(Strings(OpsAlphabet, MaxLenOps))

InitSpace == InitOn(Strings(SpaceAlphabet, MaxLenSpace))

InitIdent == InitOn(Strings(IdentAlphabet, MaxLenIdent))

InitComment == InitOn(Strings(CommentAlphabet, MaxLenComment))

Call(n) ==
    [from |-> lexer.pos, at |-> n.at, to |-> n.lx.pos, start |-> lexer.start,
     current |-> lexer.current, r |-> n.r]

\* one iteration of the loop of tokenize that pushes the result
TokenizePush ==
    /\ pc = "loop"
    /\ LET n == next_token(lexer)
           body == loop_body(results, n.r)
       IN  /\ n.r.res # "Panic"
           /\ ~body.break
           /\ lexer' = n.lx
           /\ results' = body.results
           /\ calls' = Append(calls, Call(n))
    /\ UNCHANGED <<source, pc>>

\* the iteration of the loop of tokenize that breaks at Eof
TokenizeBreak ==
    /\ pc = "loop"
    /\ LET n == next_token(lexer)
           body == loop_body(results, n.r)
       IN  /\ n.r.res # "Panic"
           /\ body.break
           /\ lexer' = n.lx
           /\ results' = body.results
           /\ calls' = Append(calls, Call(n))
    /\ pc' = "done"
    /\ UNCHANGED source

\* an expect fails inside next_token: tokenize unwinds and returns nothing;
\* results keeps what had been pushed
TokenizePanic ==
    /\ pc = "loop"
    /\ LET n == next_token(lexer)
       IN  /\ n.r.res = "Panic"
           /\ lexer' = n.lx
           /\ calls' = Append(calls, Call(n))
    /\ pc' = "panic"
    /\ UNCHANGED <<source, results>>

Next == TokenizePush \/ TokenizeBreak \/ TokenizePanic

Spec == Init /\ [][Next]_vars

SpecOps == InitOps /\ [][Next]_vars

SpecSpace == InitSpace /\ [][Next]_vars

SpecIdent == InitIdent /\ [][Next]_vars

SpecComment == InitComment /\ [][Next]_vars

\* ------------------------------------------------------------------ claims
\* the calls of next_token that returned a token other than Eof or an error
Returned(i) == calls[i].r.res \in {"Ok", "Err"} /\ ~IsEof(calls[i].r)

\* the character the i-th call matched on
MatchedOn(i) == source[calls[i].at]

\* the number of newline characters among the first k characters
NewlinesIn(k) == Cardinality({j \in 1..k : source[j] = "\n"})

\* the offset of the last newline among the first k characters, 0 if none
LastNewline(k) ==
    LET nl == {j \in 1..k : source[j] = "\n"}
    IN  IF nl = {} THEN 0 ELSE CHOOSE j \in nl : \A m \in nl : m <= j

\* no newline among the characters the i-th call consumed for its lexeme
OnOneLine(i) == \A j \in calls[i].at..calls[i].to : source[j] # "\n"

Kinds(res) == [i \in 1..Len(res) |-> res[i].t]

\* C1: every call of next_token returns Eof or consumes at least one
\* character, also when it returns an error, so tokenize makes at most one
\* call more than the source has characters and returns at most as many
\* results as the source has characters.
C1_Progress ==
    /\ \A i \in 1..Len(calls) :
          IsEof(calls[i].r) \/ calls[i].to > calls[i].from
    /\ lexer.pos <= Len(source)
    /\ Len(calls) <= Len(source) + 1
    /\ Len(results) <= Len(source)

C1_Witness ==
    /\ pc = "done"
    /\ Len(source) >= 2
    /\ Len(results) = Len(source)
    /\ \E i \in 1..Len(results) : results[i].res = "Err"

\* C2: the sequence tokenize returns holds no Eof token: the loop stops at
\* the first Ok(Eof), which is not pushed, and every result before it is
\* pushed in order.
C2_NoEof ==
    /\ \A i \in 1..Len(results) : ~IsEof(results[i])
    /\ pc = "done" =>
          /\ IsEof(calls[Len(calls)].r)
          /\ results = [i \in 1..(Len(calls) - 1) |-> calls[i].r]

C2_Witness ==
    /\ pc = "done"
    /\ \E i, j \in 1..Len(results) :
          results[i].res = "Ok" /\ results[j].res = "Err"

WhitespaceChars == {" ", "\t", "\n", "\r"}

\* C3: a source made only of whitespace characters and newlines (the empty
\* source too) tokenizes to the empty sequence, without any error.
C3_WhitespaceOnly ==
    (\A j \in 1..Len(source) : source[j] \in WhitespaceChars) =>
        /\ results = <<>>
        /\ pc # "panic"
        /\ \A i \in 1..Len(calls) : IsEof(calls[i].r)

C3_Witness ==
    /\ pc = "done"
    /\ results = <<>>
    /\ Len(source) >= 3
    /\ \A j \in 1..Len(source) : source[j] \in WhitespaceChars
    /\ \E j, k \in 1..Len(source) : source[j] = "\n" /\ source[k] = " "

\* the single-character and the '='-compound token of the operators whose
\* compound with '=' is a TokenType variant
SingleOf(ch) ==
    CASE ch = "+" -> "Add" [] ch = "-" -> "Minus" [] ch = "*" -> "Star"
      [] ch = "/" -> "Slash" [] ch = "%" -> "Modulo" [] ch = "!" -> "Bang"
      [] ch = "=" -> "Equal" [] ch = ">" -> "Greater" [] ch = "<" -> "Less"

CompoundOf(ch) ==
    CASE ch = "+" -> "AddEqual" [] ch = "-" -> "MinusEqual"
      [] ch = "*" -> "StarEqual" [] ch = "/" -> "SlashEqual"
      [] ch = "%" -> "ModuloEqual" [] ch = "!" -> "BangEqual"
      [] ch = "=" -> "EqualEqual" [] ch = ">" -> "GreaterEqual"
      [] ch = "<" -> "LessEqual"

\* C4: an operator followed by '=' tokenizes to exactly the compound token
\* of that operator, and followed by another character (here a letter) to
\* the single-character token of that operator and then the token of the
\* other character.  Stated for the operators that have a compound with '='.
C4_Claim ==
    (/\ pc # "loop"
     /\ Len(source) = 2
     /\ source[1] \in {"+", "-", "*", "/", "%", "!", "=", ">", "<"}
     /\ source[2] \in {"=", "a"}) =>
        /\ pc = "done"
        /\ IF source[2] = "="
           THEN Kinds(results) = <<CompoundOf(source[1])>>
           ELSE /\ Kinds(results) = <<SingleOf(source[1]), "Identifier">>
                /\ results[2].text = <<"a">>

IsIdentChar(ch) == ch \in Letters \cup Digits \cup {"_"}

\* the offset at which the maximal run of identifier characters that ends
\* the source starts (Len(source) + 1 when the source does not end in one)
FinalRunStart ==
    CHOOSE k \in 1..(Len(source) + 1) :
        /\ \A j \in k..Len(source) : IsIdentChar(source[j])
        /\ k > 1 => ~IsIdentChar(source[k - 1])

FinalRun == SubSeq(source, FinalRunStart, Len(source))

\* C5: a maximal run of identifier characters that starts with a letter or
\* an underscore, wherever it stands (here: at the end of the source, after
\* anything), yields the keyword token when it is a keyword and Identifier
\* with exactly its characters otherwise.
C5_Claim ==
    (/\ pc = "done"
     /\ FinalRun # <<>>
     /\ FinalRun[1] \in Letters \cup {"_"}) =>
        /\ results # <<>>
        /\ LET last == results[Len(results)]
           IN  IF FinalRun \in DOMAIN KEYWORDS
               THEN last.res = "Ok" /\ last.t = KEYWORDS[FinalRun]
               ELSE /\ last.res = "Ok"
                    /\ last.t = "Identifier"
                    /\ last.text = FinalRun

\* the source is //, a comment text without newline, a newline and fn
IsCommentThenFn ==
    /\ Len(source) >= 5
    /\ SubSeq(source, 1, 2) = <<"/", "/">>
    /\ SubSeq(source, Len(source) - 2, Len(source)) = <<"\n", "f", "n">>
    /\ \A j \in 3..(Len(source) - 3) : source[j] # "\n"

\* C6: a line comment followed by a newline and fn yields exactly Comment
\* and then Fn: nothing is produced from the text of the comment.
C6_Claim ==
    (IsCommentThenFn /\ pc # "loop") =>
        /\ pc = "done"
        /\ Kinds(results) = <<"Comment", "Fn">>

\* C7: every token or error has line 1 plus the number of newline characters
\* that precede its lexeme (stated for the lexemes that hold no newline).
C7_Claim ==
    \A i \in 1..Len(calls) :
        (Returned(i) /\ OnOneLine(i)) =>
            calls[i].r.line = 1 + NewlinesIn(calls[i].at)

\* C8: every token has as col the column, within its own line, of the last
\* character consumed for it, with one origin for all lines (0 or 1), every
\* character consumed on the line counted (stated for the lexemes that hold
\* no newline).
C8_Claim ==
    \E origin \in {0, 1} :
        \A i \in 1..Len(calls) :
            (Returned(i) /\ calls[i].r.res = "Ok" /\ OnOneLine(i)) =>
                calls[i].r.col =
                    calls[i].to - LastNewline(calls[i].to) - 1 + origin

\* C9: an opening quote, one character c and a closing quote yield the token
\* Character(c) and consume exactly these three characters, whatever
\* follows, the end of the input included.
C9_Claim ==
    \A i \in 1..Len(calls) :
        (/\ Returned(i)
         /\ MatchedOn(i) = "'"
         /\ calls[i].at + 2 <= Len(source)
         /\ source[calls[i].at + 1] \notin {"'", "\n"}
         /\ source[calls[i].at + 2] = "'") =>
            /\ calls[i].r.res = "Ok"
            /\ calls[i].r.t = "Character"
            /\ calls[i].r.text = <<source[calls[i].at + 1]>>
            /\ calls[i].to = calls[i].at + 2

\* C10: a scan that starts at a quote with at most one character after it
\* (the input ' and the input 'c) returns Err(UnexpectedEof).
C10_UnterminatedChar ==
    \A i \in 1..Len(calls) :
        (/\ ~IsEof(calls[i].r)
         /\ MatchedOn(i) = "'"
         /\ Len(source) - calls[i].at <= 1) =>
            /\ calls[i].r.res = "Err"
            /\ calls[i].r.t = "UnexpectedEof"

C10_Witness ==
    \E i \in 1..Len(calls) :
        /\ ~IsEof(calls[i].r)
        /\ MatchedOn(i) = "'"
        /\ Len(source) - calls[i].at = 1
        /\ source[Len(source)] = "f"
        /\ calls[i].r.res = "Err"
        /\ calls[i].r.t = "UnexpectedEof"

\* the calls of next_token that matched on a character (all but Eof), the
\* ones that panicked included
Scanned(i) == ~IsEof(calls[i].r)

\* no closing quote and no newline at the offsets a .. b of the source
StringContent(a, b) == \A j \in a..b : source[j] \notin {"\"", "\n"}

\* C11: a string literal with a newline before its closing quote yields
\* Err(UnexpectedCharacter) whose got is the newline, wherever the newline
\* stands in the literal (right after the opening quote too).
C11_Claim ==
    \A i \in 1..Len(calls) :
        \A k \in 1..Len(source) :
            (/\ Scanned(i)
             /\ MatchedOn(i) = "\""
             /\ k > calls[i].at
             /\ source[k] = "\n"
             /\ StringContent(calls[i].at + 1, k - 1)) =>
                /\ calls[i].r.res = "Err"
                /\ calls[i].r.t = "UnexpectedCharacter"
                /\ calls[i].r.text = <<"\n">>

\* C12: a string literal closed on its line yields String with the text of
\* the literal, both quotes included, and the scan ends just after the
\* closing quote.
C12_Claim ==
    \A i \in 1..Len(calls) :
        \A k \in 1..Len(source) :
            (/\ Scanned(i)
             /\ MatchedOn(i) = "\""
             /\ k > calls[i].at
             /\ source[k] = "\""
             /\ StringContent(calls[i].at + 1, k - 1)) =>
                /\ calls[i].r.res = "Ok"
                /\ calls[i].r.t = "String"
                /\ calls[i].r.text = SubSeq(source, calls[i].at, k)
                /\ calls[i].to = k

\* C19: when the input ends inside a string literal, the scan of the literal
\* yields Err(UnexpectedEof), not a String token.
C19_Claim ==
    \A i \in 1..Len(calls) :
        (/\ Scanned(i)
         /\ MatchedOn(i) = "\""
         /\ StringContent(calls[i].at + 1, Len(source))) =>
            /\ calls[i].r.res = "Err"
            /\ calls[i].r.t = "UnexpectedEof"

\* the offset at which the maximal run of digits and dots that starts at
\* offset a ends
NumberEnd(a) ==
    CHOOSE e \in a..Len(source) :
        /\ \A j \in a..e : source[j] \in Digits \cup {"."}
        /\ e < Len(source) => source[e + 1] \notin Digits \cup {"."}

NumberRun(a) == SubSeq(source, a, NumberEnd(a))

Dots(s) == Cardinality({j \in 1..Len(s) : s[j] = "."})

\* C13: a scan that starts at a digit yields Integer with the decimal value
\* of the run when the run holds no dot, and Decimal when it holds one dot;
\* the lexeme is exactly the digits and dots consumed.
C13_Claim ==
    \A i \in 1..Len(calls) :
        (/\ Scanned(i)
         /\ MatchedOn(i) \in Digits
         /\ Dots(NumberRun(calls[i].at)) <= 1) =>
            /\ calls[i].r.res = "Ok"
            /\ calls[i].to = NumberEnd(calls[i].at)
            /\ IF Dots(NumberRun(calls[i].at)) = 0
               THEN /\ calls[i].r.t = "Integer"
                    /\ calls[i].r.num = DecimalValue(NumberRun(calls[i].at))
               ELSE /\ calls[i].r.t = "Decimal"
                    /\ calls[i].r.text = NumberRun(calls[i].at)

\* C14: number scanning never fails: a source made of one run of digits and
\* dots that starts with a digit (3.14.159 for one) is accepted as one
\* number token, and "parsing should never fail" is never violated.
C14_Claim ==
    (/\ pc # "loop"
     /\ source # <<>>
     /\ source[1] \in Digits
     /\ \A j \in 1..Len(source) : source[j] \in Digits \cup {"."}) =>
        /\ pc = "done"
        /\ Len(results) = 1
        /\ results[1].res = "Ok"
        /\ results[1].t = IF Dots(source) = 0 THEN "Integer" ELSE "Decimal"

\* the character after the one the i-th call matched on, None at the end
Following(i) ==
    IF calls[i].at < Len(source) THEN Some(source[calls[i].at + 1]) ELSE None

\* C15: the minus and the less-than families collide: '-' yields Less as '<'
\* does, '-=' yields LessEqual as '<=' does, '->' yields Arrow, and no token
\* of kind Minus or MinusEqual is ever returned.
C15_MinusIsLess ==
    /\ \A i \in 1..Len(calls) : calls[i].r.t \notin {"Minus", "MinusEqual"}
    /\ \A i \in 1..Len(results) : results[i].t \notin {"Minus", "MinusEqual"}
    /\ \A i \in 1..Len(calls) :
          (Scanned(i) /\ MatchedOn(i) \in {"-", "<"}) =>
              /\ calls[i].r.res = "Ok"
              /\ calls[i].r.t =
                    IF Following(i) = Some("=") THEN "LessEqual"
                    ELSE IF Following(i) = Some(">") /\ MatchedOn(i) = "-"
                    THEN "Arrow"
                    ELSE "Less"
              /\ calls[i].to =
                    IF calls[i].r.t = "Less" THEN calls[i].at
                    ELSE calls[i].at + 1

C15_Witness ==
    /\ pc = "done"
    /\ \E i, j \in 1..Len(calls) :
          /\ Scanned(i) /\ MatchedOn(i) = "-" /\ calls[i].r.t = "LessEqual"
          /\ Scanned(j) /\ MatchedOn(j) = "-" /\ calls[j].r.t = "Less"

\* C16: tokenize is error-tolerant: the error of next_token is pushed and the
\* scan goes on, so the token that follows the offending character appears
\* after the error; a character that starts no token yields exactly one
\* UnknownCharacter carrying it.  Stated for an unknown character followed
\* by a one-character token.
C16_Claim ==
    (/\ pc # "loop"
     /\ Len(source) = 2
     /\ source[1] = "@"
     /\ source[2] \in {".", "1", "f"}) =>
        /\ pc = "done"
        /\ Len(results) = 2
        /\ results[1].res = "Err"
        /\ results[1].t = "UnknownCharacter"
        /\ results[1].text = <<"@">>
        /\ results[2].res = "Ok"
        /\ results[2].t = CASE source[2] = "." -> "Dot"
                             [] source[2] = "1" -> "Integer"
                             [] source[2] = "f" -> "Identifier"
        /\ source[2] = "1" => results[2].num = 1
        /\ source[2] = "f" => results[2].text = <<"f">>

\* C18: the lexeme boundary is reset between results: at the entry of every
\* call of next_token made by tokenize start equals current, after a token
\* and after an error alike.
C18_Claim ==
    \A i \in 1..Len(calls) : calls[i].start = calls[i].current

\* the messages of the expects on the result of substring
SubstringExpects ==
    {"start and current should be valid",
     "start and current should always be valid"}

ValidRange(start, current, pos) ==
    /\ 0 <= start
    /\ start <= current
    /\ current <= pos
    /\ pos <= Len(source)

\* C17: 0 <= start <= current <= characters consumed <= length of the source
\* in every state of the lexer, and no call of substring(start, current) by
\* get_lexeme or handle_string makes its expect fail.
C17_ValidRange ==
    /\ ValidRange(lexer.start, lexer.current, lexer.pos)
    /\ \A i \in 1..Len(calls) :
          /\ ValidRange(calls[i].start, calls[i].current, calls[i].from)
          /\ calls[i].r.t \notin SubstringExpects

\* a lexeme was taken after a newline had reset start and current, and
\* another one with start left behind by an error
C17_Witness ==
    /\ pc = "done"
    /\ \E i, j \in 1..Len(calls) :
          /\ calls[i].r.res = "Ok"
          /\ calls[i].r.t = "Identifier"
          /\ calls[i].at > 1
          /\ source[calls[i].at - 1] = "\n"
          /\ calls[j].r.res = "Ok"
          /\ calls[j].r.t = "Identifier"
          /\ calls[j].start < calls[j].current

====
